---- MODULE Spec2Model ----
(***************************************************************************)
(* Model of engine/apps/alerts/tasks/create_contact_points_for_datasource. *)
(*                                                                         *)
(* Two Celery tasks cooperate through the Django cache:                    *)
(*   schedule_create_contact_points_for_datasource (lines 20-28) enqueues  *)
(*     a worker with a 3 s countdown and then stores the worker's task id  *)
(*     under the integration's cache key for 600 s;                        *)
(*   create_contact_points_for_datasource (lines 31-101) is the worker:    *)
(*     fencing read, integration lookup, per-datasource loop, and either a *)
(*     reschedule of the failed datasources or the completion write.       *)
(*                                                                         *)
(* The model is untimed.  The countdown and the retry backoff are lower    *)
(* bounds on when a worker runs and nothing bounds a run from above (queue *)
(* backlog), so every order of the steps below that respects "enqueue      *)
(* before run" and "store before expiry" has a timing that realises it.    *)
(*                                                                         *)
(* Task ids are uuids.  The model draws them from the finite pool Tasks,    *)
(* in increasing order and each at most once (FreshId); the liveness       *)
(* specification alone hands out an id again, and only when no trace of    *)
(* its previous use is left in the program's state (SpareId).              *)
(***************************************************************************)
EXTENDS Integers, Sequences, FiniteSets, TLC

VARIABLES
    cache,      \* django cache: cache key -> stored task id, or None
    exists,     \* AlertReceiveChannel rows: integration id -> row present
    complete,   \* integration id -> is_finished_alerting_setup
    task,       \* task id -> the worker invocation carrying that id
    ext,        \* ids enqueued by a caller's schedule call that has not yet
                \* reached its cache.set (between line 24 and line 28)
    ncalls,     \* number of schedule calls made by callers so far
    events      \* number of other steps of the environment so far: exceptions,
                \* expiries, deletions (both counters only bound the model)

vars == <<cache, exists, complete, task, ext, ncalls, events>>

----------------------------------------------------------------------------
\* Bounds of the model.
MaxTasks == 3
MaxLen == 2
MaxCalls == 2
MaxEvents == 1
MaxRaises == 11

\* Program constants.
None == 0
max_retries == 10
HTTP_404_NOT_FOUND == 404
HTTP_400_BAD_REQUEST == 400

Integrations == {1, 2}
Tasks == 1..MaxTasks

\* Datasource dicts: "id" and "uid" keys, None when the key is missing.  The
\* first one is the built-in Grafana datasource (neither id nor uid).
Datasources == {[id |-> None, uid |-> None], [id |-> 10, uid |-> None]}

DatasourceLists == UNION {[1..n -> Datasources] : n \in 0..MaxLen}

\* What client.get_alerting_config can answer: a config, or no config and a
\* response_info carrying a status code (404, 400, or anything else: 500).
ConfigResults ==
    {[config |-> TRUE, status_code |-> 200]}
    \cup {[config |-> FALSE, status_code |-> c] :
            c \in {HTTP_404_NOT_FOUND, HTTP_400_BAD_REQUEST, 500}}

\* What create_contact_point can answer: a contact point (1) or None.
CreateResults == {None, 1}

Running == {"lookup", "loop", "set"}
Live == {"queued"} \cup Running
Terminal == {"superseded", "missing", "done", "abandoned"}

Elems(s) == {s[k] : k \in 1..Len(s)}
NoDup(s) == \A j, k \in 1..Len(s) : s[j] = s[k] => j = k
NoHist == [bad |-> {}, made |-> {}]

\* A slot of the pool that holds no invocation.
FreeTask ==
    [pc |-> "free", integ |-> None, args |-> <<>>, retries |-> 0, idx |-> 0,
     retry |-> <<>>, child |-> None, calls |-> <<>>, cur |-> NoHist,
     stored |-> FALSE, over |-> FALSE, pred |-> {},
     hist |-> NoHist, histAll |-> NoHist, nodup |-> TRUE]

\* A finished invocation: nothing of it is kept but how it ended, the calls of
\* its last step, whether its token has been overwritten, and, while its
\* schedule call has not stored the token yet, whom that store supersedes.
Terminate(r, how, calls) ==
    [FreeTask EXCEPT !.pc = how, !.integ = r.integ, !.pred = r.pred,
                     !.over = r.over, !.calls = calls]

\* Some invocation for integration i is waiting for its fencing read.
Awaited(i) == \E t \in Tasks : task[t].integ = i /\ task[t].pc = "queued"

\* Some invocation for integration i has not finished.
Busy(i) == \E t \in Tasks : task[t].integ = i /\ task[t].pc \in Live

----------------------------------------------------------------------------
\* Line 16.
CACHE_KEY_PREFIX == "create_contact_points_for_datasource"

\* Mutant of get_cache_key_create_contact_points_for_datasource: the id is
\* left out of the key.
CacheKeyWithoutId(alert_receive_channel_id) == CACHE_KEY_PREFIX

\* Lines 15-17: f"{CACHE_KEY_PREFIX}_{alert_receive_channel_id}".
get_cache_key_create_contact_points_for_datasource(alert_receive_channel_id) ==
    CACHE_KEY_PREFIX \o "_" \o ToString(alert_receive_channel_id)

\* The keys of the cache the program uses.
CacheKeys ==
    {get_cache_key_create_contact_points_for_datasource(i) : i \in Integrations}

\* Line 62.
is_grafana_datasource(datasource) ==
    ~(datasource.id # None \/ datasource.uid # None)

\* Mutant of Superseded: the test for None of line 40 left out.
SupersededWhenAbsent(cached_task_id, current_task_id) ==
    current_task_id # cached_task_id

\* Mutant of Superseded: the comparison of line 40 inverted.
SupersededInverted(cached_task_id, current_task_id) ==
    cached_task_id # None /\ current_task_id = cached_task_id

\* Line 40: the fencing condition under which the worker returns at once.
Superseded(cached_task_id, current_task_id) ==
    cached_task_id # None /\ current_task_id # cached_task_id

\* Mutant of CallsInit: the initialization call on every missing config.
CallsInitAlways(cfg) == ~cfg.config

\* Lines 66-86: whether the initialization call (lines 72-77) is issued.
CallsInit(cfg) ==
    ~cfg.config /\ cfg.status_code = HTTP_404_NOT_FOUND

\* Lines 66-86: whether create_contact_point is called (line 78 or line 86).
CallsCreate(cfg) ==
    IF ~cfg.config THEN cfg.status_code = HTTP_404_NOT_FOUND ELSE TRUE

\* Mutant of Continues: the continue of line 84 left out.
ContinuesNever(cfg) == FALSE

\* Lines 79-84: the BAD_REQUEST branch, which continues with the next one.
Continues(cfg) ==
    ~cfg.config /\ cfg.status_code # HTTP_404_NOT_FOUND
        /\ cfg.status_code = HTTP_400_BAD_REQUEST

\* Lines 61-86: the value of contact_point when line 87 is reached.
ContactPoint(cfg, created) ==
    IF CallsCreate(cfg) THEN created ELSE None

\* Mutant of Appends: the test of line 87 inverted.
AppendsCreated(cfg, created) ==
    ~Continues(cfg) /\ ContactPoint(cfg, created) # None

\* Lines 87-94: whether the datasource is appended to datasources_to_create.
Appends(cfg, created) ==
    ~Continues(cfg) /\ ContactPoint(cfg, created) = None

\* Mutant of Appended: the failed datasource is put in front.
AppendedInFront(datasources_to_create, datasource, cfg, created) ==
    IF Appends(cfg, created)
    THEN <<datasource>> \o datasources_to_create
    ELSE datasources_to_create

\* Mutant of Appended: the failed datasource is appended twice.
AppendedTwice(datasources_to_create, datasource, cfg, created) ==
    IF Appends(cfg, created)
    THEN Append(Append(datasources_to_create, datasource), datasource)
    ELSE datasources_to_create

\* Lines 87-94: datasources_to_create after the iteration on datasource.
Appended(datasources_to_create, datasource, cfg, created) ==
    IF Appends(cfg, created)
    THEN Append(datasources_to_create, datasource)
    ELSE datasources_to_create

\* The calls one loop iteration makes, in order (lines 63, 72, 78/86).
Call(op, ds, res) ==
    [op |-> op, ds |-> ds, res |-> res,
     grafana |-> op \in {"config", "init"} /\ is_grafana_datasource(ds)]
NoDS == [id |-> None, uid |-> None]
IterationCalls(ds, cfg, created) ==
    <<Call("config", ds, cfg.status_code)>>
    \o (IF CallsInit(cfg) THEN <<Call("init", ds, None)>> ELSE <<>>)
    \o (IF CallsCreate(cfg) THEN <<Call("create", ds, created)>> ELSE <<>>)

\* Bookkeeping: the datasources that got BAD_REQUEST from the config fetch and
\* those that got a contact point, among the calls cs, added to h.
Noted(h, cs) ==
    [bad |-> h.bad \cup {cs[k].ds : k \in {j \in 1..Len(cs) :
                cs[j].op = "config" /\ cs[j].res = HTTP_400_BAD_REQUEST}},
     made |-> h.made \cup {cs[k].ds : k \in {j \in 1..Len(cs) :
                cs[j].op = "create" /\ cs[j].res # None}}]
Joined(h, g) == [bad |-> h.bad \cup g.bad, made |-> h.made \cup g.made]

----------------------------------------------------------------------------
Init ==
    /\ cache = [k \in CacheKeys |-> None]
    /\ exists = [i \in Integrations |-> TRUE]
    /\ complete = [i \in Integrations |-> FALSE]
    /\ task = [t \in Tasks |-> FreeTask]
    /\ ext = {}
    /\ ncalls = 0
    /\ events = 0

\* The id apply_async returns is a new uuid: the next id never used.
FreshId(c) ==
    /\ task[c].pc = "free"
    /\ \A d \in Tasks : d < c => task[d].pc # "free"

\* An id whose previous use has left no trace: its invocation has finished
\* and the id is neither stored nor about to be stored.  Taking it again is
\* indistinguishable from taking a new uuid.
Unused(c) ==
    /\ task[c].pc \in {"free"} \cup Terminal
    /\ c \notin ext
    /\ \A t \in Tasks : task[t].child # c
    /\ \A k \in CacheKeys : cache[k] # c
SpareId(c) == Unused(c) /\ \A d \in Tasks : Unused(d) => c <= d

\* Line 24: apply_async enqueues a worker invocation with a new id c.
Enqueued(tk, c, i, l, h, hAll, nd) ==
    [s \in Tasks |->
        IF s = c
        THEN [FreeTask EXCEPT
                !.pc = "queued", !.integ = i, !.args = l,
                !.pred = {a \in Tasks \ {c} : tk[a].integ = i /\ tk[a].stored},
                !.hist = h, !.histAll = hAll, !.nodup = nd]
        ELSE [tk[s] EXCEPT !.pred = @ \ {c}]]

\* Line 28, bookkeeping: c's token is stored; the invocations whose token was
\* stored before c's schedule call began are now overwritten.
Stored(tk, c) ==
    [s \in Tasks |->
        IF s = c THEN [tk[s] EXCEPT !.stored = (tk[s].pc \in Live), !.pred = {}]
        ELSE IF s \in tk[c].pred
             THEN [tk[s] EXCEPT !.over = TRUE]
             ELSE tk[s]]

\* Mutant of CacheSet: the token is not written.
CacheSetSkipped(i, c) == cache

\* Line 28: cache.set(cache_key, task.id, timeout=CACHE_LIFETIME).
CacheSet(i, c) ==
    [cache EXCEPT ![get_cache_key_create_contact_points_for_datasource(i)] = c]

\* Mutant of Failed: one retry too many.
FailedOffByOne(r) ==
    IF r.retries > max_retries
    THEN Terminate(r, "abandoned", <<>>)
    ELSE [r EXCEPT !.pc = "queued", !.retries = @ + 1, !.idx = 0,
                   !.retry = <<>>, !.child = None, !.calls = <<>>,
                   !.cur = NoHist, !.histAll = Joined(@, r.cur)]

\* Line 31, autoretry_for=(Exception,), max_retries=10: an exception leaving
\* the worker re-enqueues the same invocation (same id, same arguments) unless
\* it has already been retried max_retries times.
Failed(r) ==
    IF r.retries >= max_retries
    THEN Terminate(r, "abandoned", <<>>)
    ELSE [r EXCEPT !.pc = "queued", !.retries = @ + 1, !.idx = 0,
                   !.retry = <<>>, !.child = None, !.calls = <<>>,
                   !.cur = NoHist, !.histAll = Joined(@, r.cur)]

----------------------------------------------------------------------------
\* A caller's schedule call, line 24; c is the id of the enqueued worker.
ScheduleEnqueue(i, l, c) ==
    /\ task' = Enqueued(task, c, i, l, NoHist, NoHist, NoDup(l))
    /\ ext' = ext \cup {c}
    /\ UNCHANGED <<cache, exists, complete>>

\* A caller's schedule call, lines 27-28.
ScheduleSet(c) ==
    /\ c \in ext
    /\ cache' = CacheSet(task[c].integ, c)
    /\ task' = Stored(task, c)
    /\ ext' = ext \ {c}
    /\ UNCHANGED <<exists, complete>>

\* A caller's schedule call whose cache.set raises: the token is never stored
\* (line 20 declares no autoretry).
ScheduleFail(c) ==
    /\ c \in ext
    /\ ext' = ext \ {c}
    /\ task' = [task EXCEPT ![c].pred = {}]
    /\ UNCHANGED <<cache, exists, complete>>

\* The cache drops a key CACHE_LIFETIME seconds after it was set (line 22).
Expire(i) ==
    /\ cache[get_cache_key_create_contact_points_for_datasource(i)] # None
    /\ cache' = [cache EXCEPT
                    ![get_cache_key_create_contact_points_for_datasource(i)] = None]
    /\ UNCHANGED <<exists, complete, task, ext>>

\* The integration is deleted concurrently.
Delete(i) ==
    /\ exists[i]
    /\ exists' = [exists EXCEPT ![i] = FALSE]
    /\ UNCHANGED <<cache, complete, task, ext>>

\* Lines 37-41: the fencing check.
Fence(t) ==
    /\ task[t].pc = "queued"
    /\ LET cache_key == get_cache_key_create_contact_points_for_datasource(task[t].integ)
           cached_task_id == cache[cache_key]
       IN  task' = [task EXCEPT ![t] =
                IF Superseded(cached_task_id, t)
                THEN Terminate(@, "superseded", <<>>)
                ELSE [@ EXCEPT !.pc = "lookup", !.calls = <<>>]]
    /\ UNCHANGED <<cache, exists, complete, ext>>

\* Mutant of NotFound: the test of line 46 left out.
NotFoundNever(i) == FALSE

\* Line 46: the integration was not found.
NotFound(i) == ~exists[i]

\* Lines 43-57: the integration lookup.
Lookup(t) ==
    /\ task[t].pc = "lookup"
    /\ task' = [task EXCEPT ![t] =
            IF NotFound(@.integ)
            THEN Terminate(@, "missing", <<Call("find", NoDS, None)>>)
            ELSE [@ EXCEPT !.pc = "loop", !.idx = 0, !.retry = <<>>,
                           !.calls = <<Call("find", NoDS, None)>>]]
    /\ UNCHANGED <<cache, exists, complete, ext>>

\* Mutant of LoopStep: the continue of line 84 turned into a break.
LoopStepBreaks(t, cfg, created) ==
    /\ task[t].pc = "loop"
    /\ task[t].idx < Len(task[t].args)
    /\ CallsCreate(cfg) \/ created = None
    /\ LET datasource == task[t].args[task[t].idx + 1]
       IN  task' = [task EXCEPT ![t] =
                [@ EXCEPT !.idx = IF Continues(cfg) THEN Len(task[t].args) ELSE @ + 1,
                          !.calls = IterationCalls(datasource, cfg, created),
                          !.cur = Noted(@, IterationCalls(datasource, cfg, created)),
                          !.retry = Appended(@, datasource, cfg, created)]]
    /\ UNCHANGED <<cache, exists, complete, ext>>

\* Lines 60-94: one iteration of the loop, on the next datasource, with the
\* answers cfg and created of the backend.
LoopStep(t, cfg, created) ==
    /\ task[t].pc = "loop"
    /\ task[t].idx < Len(task[t].args)
    /\ CallsCreate(cfg) \/ created = None
    /\ LET datasource == task[t].args[task[t].idx + 1]
       IN  task' = [task EXCEPT ![t] =
                [@ EXCEPT !.idx = @ + 1,
                          !.calls = IterationCalls(datasource, cfg, created),
                          !.cur = Noted(@, IterationCalls(datasource, cfg, created)),
                          !.retry = Appended(@, datasource, cfg, created)]]
    /\ UNCHANGED <<cache, exists, complete, ext>>

\* Mutant of MustRestart: the test of line 97 inverted.
MustRestartInverted(datasources_to_create) == datasources_to_create = <<>>

\* Line 97: some contact points were not created.
MustRestart(datasources_to_create) == datasources_to_create # <<>>

\* Lines 97-98 and line 24: the worker calls schedule with the failed subset;
\* c is the id of the enqueued worker.
Reschedule(t, c) ==
    /\ task[t].pc = "loop"
    /\ task[t].idx = Len(task[t].args)
    /\ MustRestart(task[t].retry)
    /\ LET r == task[t]
           tk == [task EXCEPT ![t] =
                    [@ EXCEPT !.pc = "set", !.child = c, !.idx = 0,
                              !.retry = <<>>, !.cur = NoHist,
                              !.histAll = Joined(@, r.cur),
                              !.calls = <<Call("schedule", NoDS, None)>>]]
       IN  task' = Enqueued(tk, c, r.integ, r.retry,
                            Joined(r.hist, r.cur), Joined(r.histAll, r.cur),
                            r.nodup)
    /\ UNCHANGED <<cache, exists, complete, ext>>

\* Lines 27-28, reached from line 98: the worker stores the new token and
\* returns.
SetToken(t) ==
    /\ task[t].pc = "set"
    /\ cache' = CacheSet(task[t].integ, task[t].child)
    /\ task' = [Stored(task, task[t].child) EXCEPT
                    ![t] = Terminate(@, "done", task[t].calls)]
    /\ UNCHANGED <<exists, complete, ext>>

\* Lines 99-101: the completion write.  save(update_fields=...) updates the
\* row; when the row is gone it raises and the attempt fails.
Complete(t) ==
    /\ task[t].pc = "loop"
    /\ task[t].idx = Len(task[t].args)
    /\ ~MustRestart(task[t].retry)
    /\ IF exists[task[t].integ]
       THEN /\ complete' = [complete EXCEPT ![task[t].integ] = TRUE]
            /\ task' = [task EXCEPT ![t] =
                    Terminate(@, "done", <<Call("save", NoDS, None)>>)]
       ELSE /\ complete' = complete
            /\ task' = [task EXCEPT ![t] = Failed(@)]
    /\ UNCHANGED <<cache, exists, ext>>

\* An exception leaves the worker (cache, database, queue or HTTP client).
Raise(t) ==
    /\ task[t].pc \in Live
    /\ task' = [task EXCEPT ![t] = Failed(@)]
    /\ UNCHANGED <<cache, exists, complete, ext>>

----------------------------------------------------------------------------
\* A caller's call, another step of the environment, and a step of a worker
\* or of a schedule call under way; the first two count against the bounds.
CallerStep(maxCalls, A) ==
    ncalls < maxCalls /\ A /\ ncalls' = ncalls + 1 /\ events' = events
Env(maxEvents, A) ==
    events < maxEvents /\ A /\ events' = events + 1 /\ ncalls' = ncalls
Sys(A) == A /\ UNCHANGED <<ncalls, events>>

\* The lists of the specifications that are not about the datasources: the
\* empty list and the built-in datasource alone.
ShortLists == {<<>>, <<NoDS>>}

\* Specification Spec: callers' calls for one integration, under every
\* interleaving of their two steps with the workers, expiry, deletion and
\* exceptions.
Next ==
    \/ \E l \in ShortLists, c \in Tasks :
            FreshId(c) /\ CallerStep(MaxCalls, ScheduleEnqueue(1, l, c))
    \/ \E c \in Tasks : Sys(ScheduleSet(c))
    \/ \E c \in Tasks : Env(MaxEvents, ScheduleFail(c))
    \/ \E i \in Integrations : Awaited(i) /\ Env(MaxEvents, Expire(i))
    \/ \E i \in Integrations : Busy(i) /\ Env(MaxEvents, Delete(i))
    \/ \E t \in Tasks : Sys(Fence(t))
    \/ \E t \in Tasks : Sys(Lookup(t))
    \/ \E t \in Tasks, cfg \in ConfigResults, created \in CreateResults :
            Sys(LoopStep(t, cfg, created))
    \/ \E t, c \in Tasks : FreshId(c) /\ Sys(Reschedule(t, c))
    \/ \E t \in Tasks : Sys(SetToken(t))
    \/ \E t \in Tasks : Sys(Complete(t))
    \/ \E t \in Tasks : Env(MaxEvents, Raise(t))

Spec == Init /\ [][Next]_vars

\* The schedule call that enqueued t has returned or failed.
Settled(t) == t \notin ext /\ \A p \in Tasks : task[p].child # t

\* Specification SpecChain: one caller's call with any datasource list, and
\* the chain of rounds it starts, with deletion and exceptions.  The countdown
\* of line 25 holds: a worker starts after the schedule call that enqueued it
\* is over.
NextChain ==
    \/ \E l \in DatasourceLists, c \in Tasks :
            FreshId(c) /\ CallerStep(1, ScheduleEnqueue(1, l, c))
    \/ \E c \in Tasks : Sys(ScheduleSet(c))
    \/ \E i \in Integrations : Busy(i) /\ Env(MaxEvents, Delete(i))
    \/ \E t \in Tasks : Settled(t) /\ Sys(Fence(t))
    \/ \E t \in Tasks : Sys(Lookup(t))
    \/ \E t \in Tasks, cfg \in ConfigResults, created \in CreateResults :
            Sys(LoopStep(t, cfg, created))
    \/ \E t, c \in Tasks : FreshId(c) /\ Sys(Reschedule(t, c))
    \/ \E t \in Tasks : Sys(SetToken(t))
    \/ \E t \in Tasks : Sys(Complete(t))
    \/ \E t \in Tasks : Env(MaxEvents, Raise(t))

SpecChain == Init /\ [][NextChain]_vars

\* Specification SpecRetry: one caller's call with nothing to create, whose
\* worker raises up to MaxRaises exceptions, wherever it can; the token may
\* expire and the integration may be deleted meanwhile.
NextRetry ==
    \/ \E c \in Tasks : FreshId(c) /\ CallerStep(1, ScheduleEnqueue(1, <<>>, c))
    \/ \E c \in Tasks : Sys(ScheduleSet(c))
    \/ \E t \in Tasks : Sys(Fence(t))
    \/ \E t \in Tasks : Sys(Lookup(t))
    \/ \E t \in Tasks : Sys(Complete(t))
    \/ \E i \in Integrations : Awaited(i) /\ Sys(Expire(i))
    \/ \E i \in Integrations : Busy(i) /\ Sys(Delete(i))
    \/ \E t \in Tasks : Env(MaxRaises, Raise(t))

SpecRetry == Init /\ [][NextRetry]_vars

\* Specification SpecFair: one caller's call and its chain with no bound on the
\* number of rounds (ids are taken again once unused), no exception, and the
\* task queue's fairness: a step a worker or a schedule call can take is
\* eventually taken.
NextWork ==
    \/ \E c \in Tasks : Sys(ScheduleSet(c))
    \/ \E t \in Tasks : Sys(Fence(t))
    \/ \E t \in Tasks : Sys(Lookup(t))
    \/ \E t \in Tasks, cfg \in ConfigResults, created \in CreateResults :
            Sys(LoopStep(t, cfg, created))
    \/ \E t, c \in Tasks : SpareId(c) /\ Sys(Reschedule(t, c))
    \/ \E t \in Tasks : Sys(SetToken(t))
    \/ \E t \in Tasks : Sys(Complete(t))

NextFair ==
    \/ \E l \in ShortLists, c \in Tasks :
            SpareId(c) /\ CallerStep(1, ScheduleEnqueue(1, l, c))
    \/ NextWork

SpecFair == Init /\ [][NextFair]_vars /\ WF_vars(NextWork)

----------------------------------------------------------------------------
\* The token the cache holds for integration i, before and after the step.
Token(i) == cache[get_cache_key_create_contact_points_for_datasource(i)]
TokenAfter(i) == cache'[get_cache_key_create_contact_points_for_datasource(i)]

\* Steps of the worker t, as the properties below recognise them.
FenceRead(t) ==
    task[t].pc = "queued" /\ task'[t].pc \in {"lookup", "superseded"}
LookupDone(t) ==
    task[t].pc = "lookup" /\ task'[t].pc \in {"loop", "missing"}
CompletionWrite(t) ==
    task[t].pc = "loop" /\ task'[t].pc = "done"

\* The step in which the schedule call that enqueued b stores b's token.
StoreStep(b) ==
    \/ b \in ext /\ b \notin ext' /\ events' = events
    \/ \E p \in Tasks :
            task[p].pc = "set" /\ task[p].child = b /\ task'[p].pc = "done"

\* t's token is the one of the most recently issued schedule call for its
\* integration (ids are issued in increasing order).
Latest(t) ==
    \A s \in Tasks :
        (task[s].pc # "free" /\ task[s].integ = task[t].integ) => s <= t

\* Nothing but the worker t itself changes in the step.
OnlyTask(t) ==
    /\ cache' = cache /\ exists' = exists /\ complete' = complete /\ ext' = ext
    /\ \A s \in Tasks \ {t} : task'[s] = task[s]

\* An ended attempt stays ended and makes no further call.
StaysEnded(t) ==
    task'[t].pc = task[t].pc /\ task'[t].calls = task[t].calls

\* C1: a worker writes setupComplete = true only if its run token is the
\* token of the most recently issued schedule call for its integration at
\* the moment of the write.
C1_OnlyLatestRunCompletes ==
    [][\A t \in Tasks : CompletionWrite(t) => Latest(t)]_vars

\* C2, as claimed: once a schedule call B, begun after A's token was stored,
\* has stored its token, every fencing read of a worker attempt carrying A's
\* token ends the attempt as superseded.
C2_SupersededAlwaysObserved ==
    [][\A a \in Tasks :
            (task[a].over /\ FenceRead(a)) => task'[a].pc = "superseded"]_vars

\* C2, amended: the same, for the fencing reads that find a token in the
\* store (no expiry in between); the attempt then makes no call at all,
\* changes nothing but its own end, and never runs again.
C2_SupersededWhileTokenStored ==
    [][\A a \in Tasks :
            /\ (task[a].over /\ Token(task[a].integ) # None /\ FenceRead(a))
                    => /\ task'[a].pc = "superseded"
                       /\ task'[a].calls = <<>>
                       /\ OnlyTask(a)
            /\ task[a].pc = "superseded" => StaysEnded(a)]_vars

\* C2, witness: a worker whose token was overwritten has ended superseded
\* while the store holds a token.
C2_Witness ==
    \E a \in Tasks :
        /\ task[a].pc = "superseded" /\ task[a].over
        /\ Token(task[a].integ) # None

\* b is the newest call for its integration and no schedule call is under way.
NewestSettled(b) ==
    /\ Latest(b)
    /\ ext = {}
    /\ \A p \in Tasks : task[p].child = None

\* C3, as claimed (its first half): when call B began after call A's token
\* was stored and both calls have finished, the store holds B's token.
C3_StoreHoldsSecondToken ==
    \A a, b \in Tasks :
        (/\ a < b /\ task[a].over /\ task[b].pc # "free"
         /\ task[a].integ = task[b].integ /\ NewestSettled(b))
            => Token(task[b].integ) = b

\* C3, amended: right after a schedule call's store write the store holds
\* that call's token and every token stored before the call began counts as
\* overwritten; from then on a worker carrying an overwritten token returns
\* at the fencing check whenever its read finds a token in the store.
C3_SecondTokenAuthoritative ==
    [][/\ \A b \in Tasks :
            StoreStep(b) =>
                /\ TokenAfter(task[b].integ) = b
                /\ \A a \in task[b].pred : task'[a].over
       /\ \A a \in Tasks :
            (task[a].over /\ Token(task[a].integ) # None /\ FenceRead(a))
                => task'[a].pc = "superseded"]_vars

\* C3, witness: B's token is in the store and A's worker, whose token was
\* stored before B's call, has returned at the fencing check.
C3_Witness ==
    \E a, b \in Tasks :
        /\ a < b /\ task[a].integ = task[b].integ /\ task[b].pc # "free"
        /\ task[a].over /\ task[a].pc = "superseded"
        /\ Token(task[b].integ) = b

\* C4: setupComplete never goes back to false (so it turns true at most
\* once), and it changes only in the step of a worker whose loop has ended
\* with an empty datasources_to_create.
C4_CompletionMonotoneJustified ==
    [][\A i \in Integrations :
            /\ complete[i] => complete'[i]
            /\ complete'[i] # complete[i] =>
                    \E t \in Tasks :
                        /\ task[t].integ = i
                        /\ task[t].pc = "loop"
                        /\ task[t].idx = Len(task[t].args)
                        /\ task[t].retry = <<>>
                        /\ CompletionWrite(t)]_vars

\* C4, witness: a worker has written the flag after a loop over a datasource.
C4_Witness ==
    \E t \in Tasks :
        /\ task[t].pc = "done" /\ task[t].calls = <<Call("save", NoDS, None)>>
        /\ complete[task[t].integ]

\* C8: a lookup that finds no integration ends the attempt with no call to
\* the backend, no write to the integration, no reschedule and the cache
\* untouched; the attempt never runs again.
C8_MissingIntegrationNoEffect ==
    [][\A t \in Tasks :
            /\ (LookupDone(t) /\ ~exists[task[t].integ])
                    => /\ task'[t].pc = "missing"
                       /\ task'[t].calls = <<Call("find", NoDS, None)>>
                       /\ OnlyTask(t)
            /\ task[t].pc = "missing" => StaysEnded(t)]_vars

\* C8, witness: an attempt has passed the fencing check and found no
\* integration.
C8_Witness ==
    \E t \in Tasks : task[t].pc = "missing" /\ ~exists[task[t].integ]

----------------------------------------------------------------------------
\* The datasources the attempt t has handled so far in its loop.
Handled(t) == {task[t].args[k] : k \in 1..task[t].idx}

\* C5, as claimed: a datasource whose config fetch has returned 400 in some
\* attempt of the chain, the current one or any earlier one (round or
\* re-invoked attempt), is not in the RetrySet.
C5_PermanentSkipStable ==
    \A t \in Tasks :
        Elems(task[t].retry)
            \cap (task[t].histAll.bad \cup task[t].cur.bad) = {}

\* C5, amended: in a chain started with a duplicate-free list, a datasource
\* whose config fetch has returned 400 in the current attempt, or in an
\* attempt whose reschedule led to the current round, is neither in the
\* RetrySet nor in the list of the round.
C5_PermanentSkipStableInChain ==
    \A t \in Tasks :
        task[t].nodup =>
            /\ Elems(task[t].retry)
                    \cap (task[t].hist.bad \cup task[t].cur.bad) = {}
            /\ Elems(task[t].args) \cap task[t].hist.bad = {}

\* C5, witness: a later round of a duplicate-free chain runs after a config
\* fetch of an earlier round returned 400.
C5_Witness ==
    \E t \in Tasks :
        /\ task[t].nodup /\ task[t].hist.bad # {}
        /\ task[t].pc = "loop" /\ task[t].idx = Len(task[t].args)

\* C6, as claimed: whatever list the caller passes, the RetrySet holds no
\* datasource twice.
C6_NoDuplicateRetryEntries ==
    \A t \in Tasks : NoDup(task[t].retry)

\* C6, amended: when the list of the round holds no datasource twice, the
\* RetrySet holds no datasource twice.
C6_NoDuplicateRetryEntriesForSets ==
    \A t \in Tasks : NoDup(task[t].args) => NoDup(task[t].retry)

\* C6, witness: the loop over a duplicate-free list of two datasources has
\* put both in the RetrySet.
C6_Witness ==
    \E t \in Tasks :
        /\ NoDup(task[t].args) /\ Len(task[t].args) = 2
        /\ Len(task[t].retry) = 2

\* C7: a datasource for which contact-point creation has returned a result
\* in an earlier attempt of the chain (round or re-invoked attempt) is not
\* handled (config fetch, creation) again.
C7_RetryOnlyFailedSubset ==
    \A t \in Tasks : Handled(t) \cap task[t].histAll.made = {}

\* C10, as claimed: an invocation is never executed more than 10 times
\* (an invocation that runs after r re-invocations is in execution r + 1).
C10_AtMostTenExecutions ==
    \A t \in Tasks : task[t].pc \in Running => task[t].retries + 1 <= 10

\* C10, amended: an invocation is never executed more than max_retries + 1
\* times (the first execution and max_retries re-invocations); once
\* abandoned it is never executed again.
C10_AtMostElevenExecutions ==
    [][\A t \in Tasks :
            /\ task'[t].pc \in Live => task'[t].retries + 1 <= max_retries + 1
            /\ task[t].pc = "abandoned" => StaysEnded(t)]_vars

\* C10, witness: an invocation that kept raising has been abandoned.
C10_Witness ==
    \E t \in Tasks : task[t].pc = "abandoned"

\* C9: every chain stops: from some point on no worker invocation is queued
\* or running.
C9_ChainStops ==
    <>[](\A t \in Tasks : task[t].pc \notin Live)

----------------------------------------------------------------------------
\* The worker t has finished its loop (line 96 is next).
LoopOver(t) ==
    task[t].pc = "loop" /\ task[t].idx = Len(task[t].args)

\* The worker t leaves line 96 without an exception.
Decides(t) ==
    LoopOver(t) /\ task'[t].pc \notin {"loop", "queued", "abandoned"}

\* The step enqueues no worker.
NoneEnqueued ==
    \A c \in Tasks : task'[c].pc = "queued" => task[c].pc = "queued"

\* The iteration t has just made gave the datasource a contact point or got
\* BAD_REQUEST from the config fetch.
IterationSettles(t) ==
    /\ task[t].pc = "loop" /\ task'[t].pc = "loop"
    /\ task'[t].idx = task[t].idx + 1
    /\ LET cs == task'[t].calls
       IN  \/ cs[Len(cs)].op = "create" /\ cs[Len(cs)].res # None
           \/ cs[Len(cs)].op = "config"
                /\ cs[Len(cs)].res = HTTP_400_BAD_REQUEST

\* C11: a worker that leaves its loop without an exception makes one schedule
\* call and no completion write when its RetrySet is non-empty, and one
\* completion write and no schedule call when it is empty; an iteration that
\* ends with a contact point or with BAD_REQUEST leaves the RetrySet as it was.
C11_ConvergenceDecision ==
    [][\A t \in Tasks :
            /\ (Decides(t) /\ task[t].retry # <<>>)
                    => /\ task'[t].pc = "set"
                       /\ task'[t].calls = <<Call("schedule", NoDS, None)>>
                       /\ complete' = complete
                       /\ Cardinality({c \in Tasks :
                                task'[c].pc = "queued" /\ task[c].pc # "queued"}) = 1
            /\ (Decides(t) /\ task[t].retry = <<>>)
                    => /\ task'[t].pc = "done"
                       /\ task'[t].calls = <<Call("save", NoDS, None)>>
                       /\ complete'[task[t].integ]
                       /\ NoneEnqueued
            /\ IterationSettles(t) => task'[t].retry = task[t].retry]_vars

\* C11, witness: a first round has ended with a schedule call and the round
\* it started has ended with the completion write.
C11_Witness ==
    \E t, c \in Tasks :
        /\ t # c
        /\ task[t].pc = "done"
        /\ task[t].calls = <<Call("schedule", NoDS, None)>>
        /\ task[c].pc = "done"
        /\ task[c].calls = <<Call("save", NoDS, None)>>
        /\ complete[task[c].integ]

----------------------------------------------------------------------------
\* The workers the step enqueues.
NewlyQueued ==
    {c \in Tasks : task'[c].pc = "queued" /\ task[c].pc \notin Live}

\* C12: a worker whose round ends with a non-empty RetrySet enqueues exactly
\* one worker, for the same integration and with exactly the RetrySet as its
\* list; when its schedule call then stores the token, the store holds the id
\* of that new worker, which is not the worker's own id, whatever it held
\* before; the worker makes no other call.
C12_RetryHandOff ==
    [][\A t \in Tasks :
            /\ (LoopOver(t) /\ task'[t].pc = "set")
                    => /\ task[t].retry # <<>>
                       /\ NewlyQueued = {task'[t].child}
                       /\ task'[t].child # t
                       /\ task'[task'[t].child].args = task[t].retry
                       /\ task'[task'[t].child].integ = task[t].integ
            /\ (task[t].pc = "set" /\ task'[t].pc = "done")
                    => /\ TokenAfter(task[t].integ) = task[t].child
                       /\ TokenAfter(task[t].integ) # t
                       /\ task'[t].calls = <<Call("schedule", NoDS, None)>>
                       /\ NewlyQueued = {}]_vars

\* C12, witness: a round over two datasources has handed one of them over:
\* its schedule call is over, the store holds the new worker's id and the new
\* worker waits with a list of one datasource.
C12_Witness ==
    \E t, c \in Tasks :
        /\ t # c
        /\ task[t].pc = "done"
        /\ task[t].calls = <<Call("schedule", NoDS, None)>>
        /\ Token(task[t].integ) = c
        /\ task[c].pc = "queued" /\ Len(task[c].args) = 1
        /\ task[c].hist.made # {}

----------------------------------------------------------------------------
\* The worker t makes one iteration of its loop.
Iterates(t) ==
    /\ task[t].pc = "loop" /\ task'[t].pc = "loop"
    /\ task'[t].idx = task[t].idx + 1

\* The datasource of the iteration, the status code its config fetch got
\* (200 with a config), and the last call the iteration made.
IterDatasource(t) == task[t].args[task[t].idx + 1]
IterCode(t) == task'[t].calls[1].res
IterLast(t) == task'[t].calls[Len(task'[t].calls)]

\* C13: an iteration appends its datasource to the RetrySet exactly when
\* (a) the config fetch gave no config and a code other than 404 and 400, or
\* (b) it gave a config or 404 and create_contact_point returned None; in
\* every other case the RetrySet is left as it was.
C13_ClassifierTable ==
    [][\A t \in Tasks :
            Iterates(t) =>
                IF \/ IterCode(t) \notin
                        {200, HTTP_404_NOT_FOUND, HTTP_400_BAD_REQUEST}
                   \/ /\ IterCode(t) \in {200, HTTP_404_NOT_FOUND}
                      /\ IterLast(t).op = "create"
                      /\ IterLast(t).res = None
                THEN task'[t].retry = Append(task[t].retry, IterDatasource(t))
                ELSE task'[t].retry = task[t].retry]_vars

\* C13, witness: a loop over two datasources has given the first a contact
\* point and put the second, and only it, in the RetrySet.
C13_Witness ==
    \E t \in Tasks :
        /\ task[t].pc = "loop" /\ task[t].idx = 2
        /\ task[t].args[1] # task[t].args[2]
        /\ task[t].cur.made = {task[t].args[1]}
        /\ task[t].retry = <<task[t].args[2]>>

----------------------------------------------------------------------------
\* The operations of the calls cs, in order.
Ops(cs) == [k \in 1..Len(cs) |-> cs[k].op]

\* C14: an iteration fetches the config and then, on 404, issues the
\* initialization call followed by create_contact_point; with a config it
\* calls create_contact_point alone; on 400 and on any other code it makes
\* no further call.  Every call is about the datasource of the iteration.
C14_CallsFollowBranchTable ==
    [][\A t \in Tasks :
            Iterates(t) =>
                /\ Ops(task'[t].calls) =
                        IF IterCode(t) = HTTP_404_NOT_FOUND
                        THEN <<"config", "init", "create">>
                        ELSE IF IterCode(t) = 200
                             THEN <<"config", "create">>
                             ELSE <<"config">>
                /\ \A k \in 1..Len(task'[t].calls) :
                        task'[t].calls[k].ds = IterDatasource(t)]_vars

\* C14, witness: an iteration has got 404, initialized, and created the
\* contact point.
C14_Witness ==
    \E t \in Tasks :
        /\ task[t].pc = "loop"
        /\ Ops(task[t].calls) = <<"config", "init", "create">>
        /\ task[t].calls[1].res = HTTP_404_NOT_FOUND
        /\ task[t].calls[3].res # None

----------------------------------------------------------------------------
\* C15: a fencing read that finds no token (expired or never stored) sends
\* the worker on to the integration lookup, in the very state a read of its
\* own token leaves it in, and changes nothing else; it neither ends the
\* attempt as superseded nor fails it.
C15_AbsentTokenProceeds ==
    [][\A t \in Tasks :
            (FenceRead(t) /\ Token(task[t].integ) \in {None, t})
                => /\ task'[t] = [task[t] EXCEPT !.pc = "lookup", !.calls = <<>>]
                   /\ OnlyTask(t)]_vars

\* C15, witness: the only caller's call stored its worker's token, the token
\* expired while the worker waited, and the worker has passed the check.
C15_Witness ==
    \E t \in Tasks :
        /\ ncalls = 1 /\ events = 1
        /\ task[t].stored /\ task[t].retries = 0
        /\ task[t].pc = "lookup"
        /\ Token(task[t].integ) = None

----------------------------------------------------------------------------
\* The number of config fetches among the calls cs.
ConfigFetches(cs) == Cardinality({k \in 1..Len(cs) : cs[k].op = "config"})

\* C16: the loop starts at the first entry of the list; every step inside it
\* fetches the config of the next entry, once, and moves on by one entry,
\* whatever the outcome; and the worker goes on to line 96 only when every
\* entry has been handled.  The list itself never changes.
C16_LoopNeverAborts ==
    [][\A t \in Tasks :
            /\ (LookupDone(t) /\ task'[t].pc = "loop") => task'[t].idx = 0
            /\ (task[t].pc = "loop" /\ task'[t].pc = "loop"
                    /\ task'[t].idx # task[t].idx)
                    => /\ task'[t].idx = task[t].idx + 1
                       /\ ConfigFetches(task'[t].calls) = 1
                       /\ task'[t].calls[1].op = "config"
                       /\ task'[t].calls[1].ds = task[t].args[task[t].idx + 1]
                       /\ task'[t].args = task[t].args
            /\ (task[t].pc = "loop" /\ task'[t].pc \in {"set", "done"})
                    => task[t].idx = Len(task[t].args)]_vars

\* C16, witness: the first of two datasources got BAD_REQUEST and the config
\* of the second has been fetched all the same.
C16_Witness ==
    \E t \in Tasks :
        /\ task[t].pc = "loop" /\ task[t].idx = 2
        /\ task[t].args[1] # task[t].args[2]
        /\ task[t].args[1] \in task[t].cur.bad
        /\ task[t].calls[1] = Call("config", task[t].args[2], 500)

----------------------------------------------------------------------------
\* No other invocation for t's integration is queued or running: no worker
\* is left that could make a later schedule call for it.
Alone(t) ==
    \A s \in Tasks \ {t} :
        task[s].integ = task[t].integ => task[s].pc \notin Live

\* C17: the worker of the most recently issued schedule call for its
\* integration, with no other worker left to issue a later one, passes the
\* fencing check whenever it reads the store.
C17_LatestRunPassesFence ==
    [][\A t \in Tasks :
            (FenceRead(t) /\ Latest(t) /\ Alone(t))
                => task'[t].pc = "lookup"]_vars

----------------------------------------------------------------------------
\* Specification SpecLive: one caller's call for an existing integration and
\* its chain; no exception, no expiry, no deletion; at most MaxEvents
\* iterations end with a retryable outcome, every other one with a contact
\* point or BAD_REQUEST; and the task queue's fairness, as in SpecFair.
NextLiveWork ==
    \/ \E c \in Tasks : Sys(ScheduleSet(c))
    \/ \E t \in Tasks : Sys(Fence(t))
    \/ \E t \in Tasks : Sys(Lookup(t))
    \/ \E t \in Tasks, cfg \in ConfigResults, created \in CreateResults :
            ~Appends(cfg, created) /\ Sys(LoopStep(t, cfg, created))
    \/ \E t \in Tasks, cfg \in ConfigResults, created \in CreateResults :
            Appends(cfg, created) /\ Env(MaxEvents, LoopStep(t, cfg, created))
    \/ \E t, c \in Tasks : FreshId(c) /\ Sys(Reschedule(t, c))
    \/ \E t \in Tasks : Sys(SetToken(t))
    \/ \E t \in Tasks : Sys(Complete(t))

NextLive ==
    \/ \E l \in DatasourceLists, c \in Tasks :
            FreshId(c) /\ CallerStep(1, ScheduleEnqueue(1, l, c))
    \/ NextLiveWork

SpecLive == Init /\ [][NextLive]_vars /\ WF_vars(NextLiveWork)

\* C18: once the schedule call has been made, is_finished_alerting_setup
\* eventually becomes true.
C18_EventuallyComplete ==
    (ncalls > 0) ~> complete[1]

----------------------------------------------------------------------------
\* r is a subsequence of l: the entries of r are entries of l, unaltered and
\* in the order they have in l.
IsSubseq(r, l) ==
    \E f \in [1..Len(r) -> 1..Len(l)] :
        /\ \A j, k \in 1..Len(r) : j < k => f[j] < f[k]
        /\ \A k \in 1..Len(r) : r[k] = l[f[k]]

\* C19: the RetrySet is at every moment a subsequence of the entries of the
\* list handled so far, and the list a worker hands to the next round is a
\* subsequence of its own list, hence no longer than it.
C19_RetrySetIsSubsequence ==
    \A t \in Tasks :
        /\ IsSubseq(task[t].retry, SubSeq(task[t].args, 1, task[t].idx))
        /\ (task[t].pc = "set" /\ task[task[t].child].pc = "queued")
                => /\ IsSubseq(task[task[t].child].args, task[t].args)
                   /\ Len(task[task[t].child].args) <= Len(task[t].args)

\* C19, witness: a round over two different datasources hands the second
\* one alone to the next round.
C19_Witness ==
    \E t \in Tasks :
        /\ task[t].pc = "set" /\ Len(task[t].args) = 2
        /\ task[t].args[1] # task[t].args[2]
        /\ task[task[t].child].pc = "queued"
        /\ task[task[t].child].args = <<task[t].args[2]>>

----------------------------------------------------------------------------
\* Specification SpecIso: callers' calls for two integrations and the chains
\* they start, interleaved, with expiry.
NextIso ==
    \/ \E i \in Integrations, l \in ShortLists, c \in Tasks :
            FreshId(c) /\ CallerStep(MaxCalls, ScheduleEnqueue(i, l, c))
    \/ \E c \in Tasks : Sys(ScheduleSet(c))
    \/ \E i \in Integrations : Awaited(i) /\ Env(MaxEvents, Expire(i))
    \/ \E t \in Tasks : Sys(Fence(t))
    \/ \E t \in Tasks : Sys(Lookup(t))
    \/ \E t \in Tasks, cfg \in ConfigResults, created \in CreateResults :
            Sys(LoopStep(t, cfg, created))
    \/ \E t, c \in Tasks : FreshId(c) /\ Sys(Reschedule(t, c))
    \/ \E t \in Tasks : Sys(SetToken(t))
    \/ \E t \in Tasks : Sys(Complete(t))

SpecIso == Init /\ [][NextIso]_vars

\* C20: the token stored for an integration is the id of a worker of that
\* integration; a step changes the token of integration y only when a
\* schedule call for y stores its token (or the token expires), and changes
\* the completion flag of y only when a worker of y makes the completion
\* write; and a worker ends as superseded only on a token stored for its own
\* integration.
C20_CrossIntegrationIsolation ==
    [][/\ \A y \in Integrations :
            /\ TokenAfter(y) # None => task'[TokenAfter(y)].integ = y
            /\ TokenAfter(y) # Token(y) =>
                    \/ TokenAfter(y) = None
                    \/ \E b \in Tasks : task[b].integ = y /\ StoreStep(b)
            /\ complete'[y] # complete[y] =>
                    \E t \in Tasks : task[t].integ = y /\ CompletionWrite(t)
       /\ \A t \in Tasks :
            (FenceRead(t) /\ task'[t].pc = "superseded")
                => /\ Token(task[t].integ) \notin {None, t}
                   /\ task[Token(task[t].integ)].integ = task[t].integ]_vars

\* C20, witness: a run of integration 1 has completed and stored tokens
\* while a worker of integration 2 waited; integration 2 holds its own token
\* and is not complete.
C20_Witness ==
    \E t, u \in Tasks :
        /\ task[t].integ = 1 /\ task[t].pc = "done" /\ complete[1]
        /\ task[u].integ = 2 /\ task[u].pc = "lookup" /\ task[u].stored
        /\ Token(2) = u /\ ~complete[2]
        /\ t > u

====
